---- MODULE Spec2Model ----
(***************************************************************************)
(* Client side of the chat application: the SSE stream decoder             *)
(* (frontend/src/services/api.js, sendMessage and clearConversation) and   *)
(* the conversation view (ChatInterface and MessageInput components).      *)
(*                                                                         *)
(* Text is a sequence of one-character strings, so that the transport can  *)
(* cut the response anywhere and split / startsWith / slice / JSON.parse   *)
(* work on what was actually reassembled.                                  *)
(***************************************************************************)
EXTENDS Integers, Sequences, FiniteSets, TLC

(***************************************************************************)
(* Bounds of the model.                                                    *)
(***************************************************************************)
\* events in one response body
MaxEvents == 2
\* invocations of handleSendMessage that pass its guard
MaxTurns == 2
\* largest value Date.now() returns
MaxClock == 1
\* clear requests in flight at once
MaxClears == 1

(***************************************************************************)
(* Text constants of the source and of the wire format.                    *)
(***************************************************************************)
EMPTY == << >>
DATA_PREFIX == <<"d", "a", "t", "a", ":", " ">>
SEPARATOR == <<"\n", "\n">>
FAILED_TO_SEND == <<"F", "a", "i", "l", "e", "d", " ", "t", "o", " ", "s", "e", "n", "d", " ", "m", "e", "s", "s", "a", "g", "e">>
FAILED_TO_CLEAR == <<"F", "a", "i", "l", "e", "d", " ", "t", "o", " ", "c", "l", "e", "a", "r", " ", "c", "o", "n", "v", "e", "r", "s", "a", "t", "i", "o", "n">>
KEY_error == <<"e", "r", "r", "o", "r">>
KEY_chunk == <<"c", "h", "u", "n", "k">>
KEY_done == <<"d", "o", "n", "e">>
KEY_full_response == <<"f", "u", "l", "l", "_", "r", "e", "s", "p", "o", "n", "s", "e">>
LIT_true == <<"t", "r", "u", "e">>
LIT_false == <<"f", "a", "l", "s", "e">>

(***************************************************************************)
(* Payloads a response body is made of (the text after "data: ").          *)
(***************************************************************************)
J_chunk_a == <<"{", "\"", "c", "h", "u", "n", "k", "\"", ":", "\"", "a", "\"", "}">>
\* a chunk whose text is one two-byte character (the bytes C3 A9 of U+00E9)
J_chunk_2byte == <<"{", "\"", "c", "h", "u", "n", "k", "\"", ":", "\"", "C3", "A9", "\"", "}">>
J_error == <<"{", "\"", "e", "r", "r", "o", "r", "\"", ":", "\"", "E", "\"", "}">>
J_error_empty == <<"{", "\"", "e", "r", "r", "o", "r", "\"", ":", "\"", "\"", "}">>
J_done == <<"{", "\"", "d", "o", "n", "e", "\"", ":", "t", "r", "u", "e", "}">>
J_done_full == <<"{", "\"", "d", "o", "n", "e", "\"", ":", "t", "r", "u", "e", ",", "\"", "f", "u", "l", "l", "_", "r", "e", "s", "p", "o", "n", "s", "e", "\"", ":", "\"", "a", "b", "\"", "}">>
J_done_full_empty == <<"{", "\"", "d", "o", "n", "e", "\"", ":", "t", "r", "u", "e", ",", "\"", "f", "u", "l", "l", "_", "r", "e", "s", "p", "o", "n", "s", "e", "\"", ":", "\"", "\"", "}">>
J_malformed == <<"{", "\"", "c", "h", "u", "n", "k", "\"", ":", "\"", "a">>
COMMENT == <<":", " ", "k">>
\* bodies of a non-2xx response
J_detail == <<"{", "\"", "d", "e", "t", "a", "i", "l", "\"", ":", "\"", "D", "\"", "}">>
J_detail_empty == <<"{", "\"", "d", "e", "t", "a", "i", "l", "\"", ":", "\"", "\"", "}">>
J_no_detail == <<"{", "}">>
NOT_JSON == <<"<", "h", ">">>
KEY_detail == <<"d", "e", "t", "a", "i", "l">>
\* messages of the errors the platform raises
MSG_fetch == <<"f", "e", "t", "c", "h">>
MSG_read == <<"r", "e", "a", "d">>
MSG_syntax == <<"s", "y", "n", "t", "a", "x">>

(***************************************************************************)
(* String primitives.                                                      *)
(***************************************************************************)
\* s.slice(n)
Slice(s, n) == SubSeq(s, n + 1, Len(s))

\* s.startsWith(p)
StartsWith(s, p) == Len(s) >= Len(p) /\ SubSeq(s, 1, Len(p)) = p

\* x || d on strings: the empty string is falsy
OrElse(x, d) == IF x = EMPTY THEN d ELSE x

\* s.trim(): the only whitespace of the model's inputs is the space
RECURSIVE TrimStart(_)
TrimStart(s) == IF s # EMPTY /\ Head(s) = " " THEN TrimStart(Tail(s)) ELSE s

RECURSIVE TrimEnd(_)
TrimEnd(s) == IF s # EMPTY /\ s[Len(s)] = " " THEN TrimEnd(SubSeq(s, 1, Len(s) - 1)) ELSE s

Trim(s) == TrimEnd(TrimStart(s))

\* the least element of a non-empty set of numbers
Least(S) == CHOOSE k \in S : \A j \in S : k <= j

\* s.indexOf('\n\n'), counted from 1: 0 if there is none
IndexOfSeparator(s) ==
    LET at == {k \in 1..(Len(s) - 1) : s[k] = "\n" /\ s[k + 1] = "\n"}
    IN  IF at = {} THEN 0 ELSE Least(at)

\* s.split('\n\n'): at least one piece, the last one is what follows the last separator
RECURSIVE Split(_)
Split(s) ==
    LET i == IndexOfSeparator(s)
    IN  IF i = 0 THEN <<s>>
        ELSE <<SubSeq(s, 1, i - 1)>> \o Split(SubSeq(s, i + 2, Len(s)))

(***************************************************************************)
(* JSON.parse, for the texts the model's bodies are made of: an object     *)
(* whose members are "key":value with value a string without escapes,      *)
(* true or false, and no white space.  Any other text is a SyntaxError.    *)
(* A parsed object is a function from keys to values; a value is           *)
(* [type, value].                                                          *)
(***************************************************************************)
UNDEFINED == [type |-> "undefined", value |-> EMPTY]
StringValue(s) == [type |-> "string", value |-> s]
TrueValue == [type |-> "boolean", value |-> LIT_true]
FalseValue == [type |-> "boolean", value |-> LIT_false]
SyntaxErrorResult == [ok |-> FALSE, value |-> << >>, next |-> 0]

\* index of the first double quote of s at or after i, 0 if none
IndexOfQuote(s, i) ==
    LET at == {k \in i..Len(s) : s[k] = "\""}
    IN  IF at = {} THEN 0 ELSE Least(at)

\* a string literal starting at s[i]
ParseString(s, i) ==
    IF i > Len(s) \/ s[i] # "\"" THEN SyntaxErrorResult
    ELSE LET j == IndexOfQuote(s, i + 1)
         IN  IF j = 0 THEN SyntaxErrorResult
             ELSE [ok |-> TRUE, value |-> SubSeq(s, i + 1, j - 1), next |-> j + 1]

\* a value starting at s[i]
ParseValue(s, i) ==
    IF i > Len(s) THEN SyntaxErrorResult
    ELSE IF s[i] = "\"" THEN
        LET r == ParseString(s, i)
        IN  IF r.ok THEN [ok |-> TRUE, value |-> StringValue(r.value), next |-> r.next]
            ELSE SyntaxErrorResult
    ELSE IF StartsWith(Slice(s, i - 1), LIT_true) THEN [ok |-> TRUE, value |-> TrueValue, next |-> i + 4]
    ELSE IF StartsWith(Slice(s, i - 1), LIT_false) THEN [ok |-> TRUE, value |-> FalseValue, next |-> i + 5]
    ELSE SyntaxErrorResult

\* the members of an object from s[i] to the closing brace, which must end s
RECURSIVE ParseMembers(_, _, _)
ParseMembers(s, i, obj) ==
    LET k == ParseString(s, i)
    IN  IF ~k.ok \/ k.next > Len(s) \/ s[k.next] # ":" THEN SyntaxErrorResult
        ELSE LET v == ParseValue(s, k.next + 1)
                 o == (k.value :> v.value) @@ obj
             IN  IF ~v.ok \/ v.next > Len(s) THEN SyntaxErrorResult
                 ELSE IF s[v.next] = "}" THEN
                     IF v.next = Len(s) THEN [ok |-> TRUE, value |-> o, next |-> v.next + 1]
                     ELSE SyntaxErrorResult
                 ELSE IF s[v.next] = "," THEN ParseMembers(s, v.next + 1, o)
                 ELSE SyntaxErrorResult

JSONParse(s) ==
    IF Len(s) < 2 \/ s[1] # "{" THEN SyntaxErrorResult
    ELSE IF s = <<"{", "}">> THEN [ok |-> TRUE, value |-> << >>, next |-> 3]
    ELSE ParseMembers(s, 2, << >>)

\* data.key: undefined when the object has no such member
Get(data, key) == IF key \in DOMAIN data THEN data[key] ELSE UNDEFINED

\* the truthiness the if statements test
Truthy(v) ==
    CASE v.type = "string" -> v.value # EMPTY
      [] v.type = "boolean" -> v.value = LIT_true
      [] OTHER -> FALSE


(***************************************************************************)
(* TextDecoder.decode(value, {stream: true}): bytes to characters.  An     *)
(* ASCII byte is its character; the lead byte C3 is held back until its    *)
(* continuation byte arrives, in this read or in a later one.              *)
(***************************************************************************)
IsLead(b) == b = "C3"
IsContinuation(b) == b = "A9"

\* [text, pending]: the characters decoded from pending \o value and the byte held back
Decode(pending, value) ==
    LET bytes == pending \o value
        n == Len(bytes)
        \* the character position k yields, "" if none
        out == [k \in 1..n |->
                  IF IsLead(bytes[k])
                  THEN IF k = n THEN ""
                       ELSE IF IsContinuation(bytes[k + 1]) THEN "U+00E9" ELSE "U+FFFD"
                  ELSE IF IsContinuation(bytes[k])
                  THEN IF k > 1 /\ IsLead(bytes[k - 1]) THEN "" ELSE "U+FFFD"
                  ELSE bytes[k]]
    IN  [text |-> SelectSeq(out, LAMBDA c : c # ""),
         pending |-> IF n > 0 /\ IsLead(bytes[n]) THEN <<bytes[n]>> ELSE EMPTY]

(***************************************************************************)
(* sendMessage, the stream decoder.  Its locals are the fields buffer,     *)
(* accumulatedResponse, completed of a record s; s.calls lists the         *)
(* callback calls it has made, in order; s.exit says how a block ended     *)
(* ("next": fell through, "return", "throw") and s.error what it threw.    *)
(***************************************************************************)
NoError == [name |-> "", message |-> EMPTY]
NewError(name, message) == [name |-> name, message |-> message]

OnChunkCall(chunk) == [fn |-> "onChunk", arg |-> chunk]
OnCompleteCall(text) == [fn |-> "onComplete", arg |-> text]

\* CompleteOnce without the completed flag
CompleteEveryTime(s) ==
    [s EXCEPT !.calls = Append(@, OnCompleteCall(OrElse(s.accumulatedResponse, EMPTY)))]

\* if (!completed) { completed = true; onComplete(accumulatedResponse || '') }
CompleteOnce(s) ==
    IF ~s.completed
    THEN [s EXCEPT !.completed = TRUE,
                   !.calls = Append(@, OnCompleteCall(OrElse(s.accumulatedResponse, EMPTY)))]
    ELSE s

\* CompleteDone that never looks at full_response
CompleteDoneAccumulated(s, data) == CompleteOnce(s)

\* the done branch: full_response if truthy, else the accumulated text
CompleteDone(s, data) ==
    IF ~s.completed
    THEN LET full == Get(data, KEY_full_response)
         IN  [s EXCEPT !.completed = TRUE,
                       !.calls = Append(@, OnCompleteCall(
                                    IF Truthy(full) THEN full.value
                                    ELSE OrElse(s.accumulatedResponse, EMPTY)))]
    ELSE s

\* a chunk branch that calls onChunk and does not add to accumulatedResponse
DispatchChunkNotAccumulated(s, data) ==
    LET chunk == Get(data, KEY_chunk)
    IN  IF Truthy(chunk)
        THEN [s EXCEPT !.calls = Append(@, OnChunkCall(chunk.value))]
        ELSE s

\* the chunk branch
DispatchChunk(s, data) ==
    LET chunk == Get(data, KEY_chunk)
    IN  IF Truthy(chunk)
        THEN [s EXCEPT !.accumulatedResponse = @ \o chunk.value,
                       !.calls = Append(@, OnChunkCall(chunk.value))]
        ELSE s

\* the try block of one line that starts with "data: "
TryBlock(s, line) ==
    LET parsed == JSONParse(Slice(line, 6))
        data == parsed.value
    IN  IF ~parsed.ok THEN [s EXCEPT !.exit = "throw", !.error = NewError("SyntaxError", MSG_syntax)]
        ELSE IF Truthy(Get(data, KEY_error))
        THEN [CompleteOnce(s) EXCEPT !.exit = "throw",
                                     !.error = NewError("Error", Get(data, KEY_error).value)]
        ELSE LET s1 == DispatchChunk(s, data)
             IN  IF Truthy(Get(data, KEY_done))
                 THEN [CompleteDone(s1, data) EXCEPT !.exit = "return"]
                 ELSE s1

\* CatchBlock that lets a SyntaxError of JSON.parse abort the stream
CatchBlockRethrows(s) == [CompleteOnce(s) EXCEPT !.exit = "throw"]

\* the catch block of that try
CatchBlock(s) ==
    IF s.error.name = "SyntaxError"
    THEN [s EXCEPT !.exit = "next", !.error = NoError]
    ELSE [CompleteOnce(s) EXCEPT !.exit = "throw"]

\* the body of the for loop
ForBody(s, line) ==
    IF StartsWith(line, DATA_PREFIX)
    THEN LET t == TryBlock(s, line)
         IN  IF t.exit = "throw" THEN CatchBlock(t) ELSE t
    ELSE s

\* a for loop that goes on to the last line after a return or throw
RECURSIVE ForLinesToTheEnd(_, _)
ForLinesToTheEnd(s, lines) ==
    IF lines = << >> THEN s
    ELSE ForLinesToTheEnd(ForBody(s, Head(lines)), Tail(lines))

\* for (const line of lines): stops at the first return or throw
RECURSIVE ForLines(_, _)
ForLines(s, lines) ==
    IF lines = << >> \/ s.exit # "next" THEN s
    ELSE ForLines(ForBody(s, Head(lines)), Tail(lines))

\* PopBuffer that drops the unfinished segment
PopBufferDropped(lines) == EMPTY

\* lines.pop() || ''
PopBuffer(lines) == OrElse(lines[Len(lines)], EMPTY)

\* one iteration of the while loop on a read that delivered value
ProcessValue(s, value) ==
    LET decoded == Decode(s.pending, value)
        text == s.buffer \o decoded.text
        lines == Split(text)
        s1 == [s EXCEPT !.pending = decoded.pending, !.buffer = PopBuffer(lines)]
    IN  ForLines(s1, SubSeq(lines, 1, Len(lines) - 1))

\* an iteration on done that first handles the text left in the buffer as a line
ProcessDoneParsesBuffer(s) ==
    LET t == ForBody(s, s.buffer)
    IN  IF t.exit = "next" THEN [CompleteOnce(t) EXCEPT !.exit = "return"] ELSE t

\* the iteration on a read that reports done
ProcessDone(s) == [CompleteOnce(s) EXCEPT !.exit = "return"]

\* catch (streamError)
StreamErrorCatch(s) == [CompleteOnce(s) EXCEPT !.exit = "throw"]

\* the while loop's iteration with its enclosing try and catch
ReadStep(s, value) ==
    LET t == ProcessValue(s, value)
    IN  IF t.exit = "throw" THEN StreamErrorCatch(t) ELSE t

\* the read itself rejects
ReadRejected(s) == StreamErrorCatch([s EXCEPT !.error = NewError("TypeError", MSG_read)])

\* an error with the fallback text whatever the body's detail
ResponseErrorFallback(body) ==
    IF ~JSONParse(body).ok THEN NewError("SyntaxError", MSG_syntax)
    ELSE NewError("Error", FAILED_TO_SEND)

\* if (!response.ok): the error raised from the body of a non-2xx response
ResponseError(body) ==
    LET parsed == JSONParse(body)
        detail == Get(parsed.value, KEY_detail)
    IN  IF ~parsed.ok THEN NewError("SyntaxError", MSG_syntax)
        ELSE NewError("Error", IF Truthy(detail) THEN detail.value ELSE FAILED_TO_SEND)

(***************************************************************************)
(* Response bodies.                                                        *)
(***************************************************************************)
\* the bytes of one segment with its separator
Wire(e) == (IF e = COMMENT THEN e ELSE DATA_PREFIX \o e) \o SEPARATOR

\* the bodies made of at most n segments of S
RECURSIVE BodiesOf(_, _)
BodiesOf(S, n) ==
    IF n = 0 THEN {EMPTY}
    ELSE LET prev == BodiesOf(S, n - 1)
         IN  prev \cup {b \o Wire(e) : b \in prev, e \in S}

DecoderEvents == {J_chunk_a, J_chunk_2byte, J_error, J_error_empty, J_done, J_done_full,
                  J_done_full_empty, J_malformed, COMMENT}
ViewEvents == {J_chunk_a, J_error, J_done, J_done_full}
DecoderBodies == BodiesOf(DecoderEvents, MaxEvents)
\* the bodies the view is run on: nothing, one event, or a chunk and one more event
ViewBodies == {EMPTY} \cup {Wire(e) : e \in ViewEvents}
                      \cup {Wire(J_chunk_a) \o Wire(e) : e \in ViewEvents}
ErrorBodies == {J_detail, J_detail_empty, J_no_detail, NOT_JSON}
\* the body the non-2xx responses of the view carry, and the body its clear
\* responses carry, 2xx or not
ViewErrorBodies == {J_detail}
ViewClearBodies == {J_detail}

\* the sizes of a read of body: any, or (aligned) up to the end of a segment
ReadSizes(body, aligned) ==
    {n \in 1..Len(body) :
        ~aligned \/ n = Len(body) \/ (n >= 2 /\ SubSeq(body, n - 1, n) = SEPARATOR)}

(***************************************************************************)
(* State.                                                                  *)
(***************************************************************************)
VARIABLES
    messages,   \* ChatInterface: useState([])
    isLoading,  \* ChatInterface: useState(false)
    error,      \* ChatInterface: useState(null)
    input,      \* MessageInput: useState('')
    now,        \* the last value Date.now() returned
    turns,      \* the invocations of handleSendMessage that passed its guard, with the
                \* locals of their sendMessage call
    clears      \* the invocations of handleClearConversation awaiting clearConversation

vars == <<messages, isLoading, error, input, now, turns, clears>>

\* null, which is no text
NULL == <<"null">>

\* what the user types
Inputs == {<<" ">>, <<" ", "h">>}

\* a message of the list; a user message has no isStreaming property, which reads as false
Message(id, role, content, isStreaming) ==
    [id |-> id, role |-> role, content |-> content, isStreaming |-> isStreaming]

\* the locals of handleSendMessage and of its sendMessage call about to fetch: pc is the
\* await the call is at, body what the response has not delivered yet; status (the
\* response's, "" before it), delivered (the bytes read so far), before and userMessage
\* (the list when the handler was invoked and the message it appended) record what
\* happened
NewTurn(assistantMessageId, userMessage, before) ==
    [pc |-> "fetch", assistantMessageId |-> assistantMessageId,
     userMessage |-> userMessage, before |-> before,
     status |-> "", body |-> EMPTY, delivered |-> EMPTY,
     pending |-> EMPTY, buffer |-> EMPTY, accumulatedResponse |-> EMPTY,
     completed |-> FALSE, calls |-> << >>, exit |-> "next", error |-> NoError]

\* an invocation that has returned: its locals are gone
ReturnedTurn == [NewTurn(0, << >>, << >>) EXCEPT !.pc = "done"]

\* a sendMessage promise has settled and its continuation has not run yet: it runs
\* before any other event is handled
Settling == \E i \in DOMAIN turns : turns[i].pc \in {"resolved", "rejected"}

Init ==
    /\ messages = << >>
    /\ isLoading = FALSE
    /\ error = NULL
    /\ input = EMPTY
    /\ now = 0
    /\ turns = << >>
    /\ clears = << >>

(***************************************************************************)
(* ChatInterface: the callbacks handed to sendMessage.                     *)
(***************************************************************************)
\* an onChunk callback that replaces the content by the chunk
UpdateStreamingReplaces(msgs, assistantMessageId, chunk) ==
    [k \in DOMAIN msgs |->
        IF msgs[k].id = assistantMessageId
        THEN [msgs[k] EXCEPT !.content = chunk, !.isStreaming = TRUE]
        ELSE msgs[k]]

\* the onChunk callback
UpdateStreaming(msgs, assistantMessageId, chunk) ==
    [k \in DOMAIN msgs |->
        IF msgs[k].id = assistantMessageId
        THEN [msgs[k] EXCEPT !.content = @ \o chunk, !.isStreaming = TRUE]
        ELSE msgs[k]]

\* an onComplete callback that sets the content and leaves isStreaming as it was
MarkCompleteKeepsStreaming(msgs, assistantMessageId, fullResponse) ==
    [k \in DOMAIN msgs |->
        IF msgs[k].id = assistantMessageId
        THEN [msgs[k] EXCEPT !.content = fullResponse]
        ELSE msgs[k]]

\* the onComplete callback
MarkComplete(msgs, assistantMessageId, fullResponse) ==
    [k \in DOMAIN msgs |->
        IF msgs[k].id = assistantMessageId
        THEN [msgs[k] EXCEPT !.content = fullResponse, !.isStreaming = FALSE]
        ELSE msgs[k]]

\* the callback calls of one decoder step, applied in order
RECURSIVE ApplyCalls(_, _, _)
ApplyCalls(msgs, assistantMessageId, calls) ==
    IF calls = << >> THEN msgs
    ELSE LET c == Head(calls)
             m == IF c.fn = "onChunk"
                  THEN UpdateStreaming(msgs, assistantMessageId, c.arg)
                  ELSE MarkComplete(msgs, assistantMessageId, c.arg)
         IN  ApplyCalls(m, assistantMessageId, Tail(calls))

\* s without its element at index c
RemoveAt(s, c) == SubSeq(s, 1, c - 1) \o SubSeq(s, c + 1, Len(s))

\* prev.filter(msg => msg.id !== assistantMessageId)
RECURSIVE RemoveAssistant(_, _)
RemoveAssistant(msgs, assistantMessageId) ==
    IF msgs = << >> THEN << >>
    ELSE IF Head(msgs).id # assistantMessageId
         THEN <<Head(msgs)>> \o RemoveAssistant(Tail(msgs), assistantMessageId)
         ELSE RemoveAssistant(Tail(msgs), assistantMessageId)

(***************************************************************************)
(* ChatInterface.handleSendMessage up to its await, and MessageInput.      *)
(***************************************************************************)
\* handleSendMessage whose guard tests the text only, not isLoading
handleSendMessageUnguarded(messageText) ==
    IF Trim(messageText) = EMPTY
    THEN UNCHANGED <<messages, isLoading, error, now, turns>>
    ELSE /\ Len(turns) < MaxTurns
         /\ \E t1 \in now..MaxClock : \E t2 \in t1..MaxClock :
              /\ messages' = messages \o
                     <<Message(t1, "user", Trim(messageText), FALSE),
                       Message(t2 + 1, "assistant", EMPTY, TRUE)>>
              /\ now' = t2
              /\ turns' = Append(turns, NewTurn(t2 + 1,
                              Message(t1, "user", Trim(messageText), FALSE), messages))
         /\ isLoading' = TRUE
         /\ error' = NULL

\* the guard, the two appends and the call of sendMessage, which starts the fetch;
\* the two reads of Date.now() return values that do not decrease
handleSendMessage(messageText) ==
    IF Trim(messageText) = EMPTY \/ isLoading
    THEN UNCHANGED <<messages, isLoading, error, now, turns>>
    ELSE /\ Len(turns) < MaxTurns
         /\ \E t1 \in now..MaxClock : \E t2 \in t1..MaxClock :
              /\ messages' = messages \o
                     <<Message(t1, "user", Trim(messageText), FALSE),
                       Message(t2 + 1, "assistant", EMPTY, TRUE)>>
              /\ now' = t2
              /\ turns' = Append(turns, NewTurn(t2 + 1,
                              Message(t1, "user", Trim(messageText), FALSE), messages))
         /\ isLoading' = TRUE
         /\ error' = NULL

\* the textarea's onChange; the textarea is disabled while loading
onChange(v) ==
    /\ ~Settling
    /\ ~isLoading
    /\ input' = v
    /\ UNCHANGED <<messages, isLoading, error, now, turns, clears>>

\* MessageInput.handleSubmit
handleSubmit ==
    /\ ~Settling
    /\ IF Trim(input) # EMPTY /\ ~isLoading
       THEN handleSendMessage(input) /\ input' = EMPTY
       ELSE UNCHANGED <<messages, isLoading, error, now, turns, input>>
    /\ UNCHANGED clears

\* the onSendMessage prop called with any text by another caller than handleSubmit
onSendMessage(messageText) ==
    /\ ~Settling
    /\ input = EMPTY
    /\ handleSendMessage(messageText)
    /\ UNCHANGED <<input, clears>>

(***************************************************************************)
(* sendMessage: one action per await.                                      *)
(***************************************************************************)
\* await fetch(...) rejects: the outer catch logs and rethrows
FetchRejects(i) ==
    /\ ~Settling
    /\ turns[i].pc = "fetch"
    /\ turns' = [turns EXCEPT ![i] = [@ EXCEPT !.pc = "rejected",
                                               !.error = NewError("TypeError", MSG_fetch)]]
    /\ UNCHANGED <<messages, isLoading, error, input, now, clears>>

\* await fetch(...) resolves with a 2xx response whose body is one of bodies
FetchResponds(i, bodies) ==
    /\ ~Settling
    /\ turns[i].pc = "fetch"
    /\ \E b \in bodies :
         turns' = [turns EXCEPT ![i] = [@ EXCEPT !.pc = "read", !.status = "2xx", !.body = b]]
    /\ UNCHANGED <<messages, isLoading, error, input, now, clears>>

\* await fetch(...) resolves with a non-2xx response
FetchNotOk(i) ==
    /\ ~Settling
    /\ turns[i].pc = "fetch"
    /\ turns' = [turns EXCEPT ![i] = [@ EXCEPT !.pc = "json", !.status = "non-2xx"]]
    /\ UNCHANGED <<messages, isLoading, error, input, now, clears>>

\* await response.json() of the non-2xx response settles on its body b, one of bodies;
\* the error is thrown
ResponseJson(i, bodies) ==
    /\ ~Settling
    /\ turns[i].pc = "json"
    /\ \E b \in bodies :
         turns' = [turns EXCEPT ![i] = [@ EXCEPT !.pc = "rejected", !.delivered = b,
                                                 !.error = ResponseError(b)]]
    /\ UNCHANGED <<messages, isLoading, error, input, now, clears>>

\* the turn record and the list after a decoder step that took s to t
AfterStep(i, t) ==
    /\ turns' = [turns EXCEPT ![i] =
                    [t EXCEPT !.pc = CASE t.exit = "return" -> "resolved"
                                       [] t.exit = "throw" -> "rejected"
                                       [] OTHER -> "read"]]
    /\ messages' = ApplyCalls(messages, turns[i].assistantMessageId,
                              SubSeq(t.calls, Len(turns[i].calls) + 1, Len(t.calls)))

\* await reader.read() resolves with the next n bytes of the body
Read(i, aligned) ==
    /\ ~Settling
    /\ turns[i].pc = "read"
    /\ \E n \in ReadSizes(turns[i].body, aligned) :
         LET value == SubSeq(turns[i].body, 1, n)
             s == [turns[i] EXCEPT !.body = Slice(@, n), !.delivered = @ \o value]
         IN  AfterStep(i, ReadStep(s, value))
    /\ UNCHANGED <<isLoading, error, input, now, clears>>

\* await reader.read() resolves with done: the body has ended, or the peer closed it
ReadDone(i) ==
    /\ ~Settling
    /\ turns[i].pc = "read"
    /\ AfterStep(i, ProcessDone([turns[i] EXCEPT !.body = EMPTY]))
    /\ UNCHANGED <<isLoading, error, input, now, clears>>

\* await reader.read() rejects
ReadFails(i) ==
    /\ ~Settling
    /\ turns[i].pc = "read"
    /\ AfterStep(i, ReadRejected([turns[i] EXCEPT !.body = EMPTY]))
    /\ UNCHANGED <<isLoading, error, input, now, clears>>

(***************************************************************************)
(* ChatInterface.handleSendMessage after its await.                        *)
(***************************************************************************)
\* err.message || 'Failed to send message'
SendErrorNotice(err) == OrElse(err.message, FAILED_TO_SEND)

\* Settle without the finally block
SettleKeepsLoading(i) ==
    /\ turns[i].pc \in {"resolved", "rejected"}
    /\ IF turns[i].pc = "rejected"
       THEN /\ error' = SendErrorNotice(turns[i].error)
            /\ messages' = RemoveAssistant(messages, turns[i].assistantMessageId)
       ELSE UNCHANGED <<error, messages>>
    /\ turns' = [turns EXCEPT ![i] = ReturnedTurn]
    /\ UNCHANGED <<isLoading, input, now, clears>>

\* catch (err) { setError; setMessages(filter) } finally { setIsLoading(false) }
Settle(i) ==
    /\ turns[i].pc \in {"resolved", "rejected"}
    /\ IF turns[i].pc = "rejected"
       THEN /\ error' = SendErrorNotice(turns[i].error)
            /\ messages' = RemoveAssistant(messages, turns[i].assistantMessageId)
       ELSE UNCHANGED <<error, messages>>
    /\ isLoading' = FALSE
    /\ turns' = [turns EXCEPT ![i] = ReturnedTurn]
    /\ UNCHANGED <<input, now, clears>>

\* the error notice's close button
DismissError ==
    /\ ~Settling
    /\ error # NULL
    /\ error' = NULL
    /\ UNCHANGED <<messages, isLoading, input, now, turns, clears>>

(***************************************************************************)
(* ChatInterface.handleClearConversation and api.js clearConversation.     *)
(***************************************************************************)
\* the Clear button is disabled on an empty list; window.confirm answers confirmed
handleClearConversation(confirmed) ==
    /\ ~Settling
    /\ Len(messages) # 0
    /\ IF confirmed
       THEN /\ Len(clears) < MaxClears
            /\ clears' = Append(clears, [pc |-> "fetch", ok |-> FALSE, body |-> EMPTY])
       ELSE UNCHANGED clears
    /\ UNCHANGED <<messages, isLoading, error, input, now, turns>>

\* a notice that is the fallback text whatever the error
ClearErrorNoticeFallback(err) == FAILED_TO_CLEAR

\* err.message || 'Failed to clear conversation'
ClearErrorNotice(err) == OrElse(err.message, FAILED_TO_CLEAR)

\* await fetch(...) of the clear request rejects; the handler's catch sets the notice
ClearFetchRejects(c) ==
    /\ ~Settling
    /\ clears[c].pc = "fetch"
    /\ error' = ClearErrorNotice(NewError("TypeError", MSG_fetch))
    /\ clears' = RemoveAt(clears, c)
    /\ UNCHANGED <<messages, isLoading, input, now, turns>>

\* await fetch(...) of the clear request resolves, 2xx or not, with a response whose
\* body is one of bodies
ClearFetchResponds(c, bodies) ==
    /\ ~Settling
    /\ clears[c].pc = "fetch"
    /\ \E ok \in BOOLEAN : \E b \in bodies :
         clears' = [clears EXCEPT ![c] = [pc |-> "json", ok |-> ok, body |-> b]]
    /\ UNCHANGED <<messages, isLoading, error, input, now, turns>>

\* what clearConversation throws after response.json(), NoError if it returns
ClearOutcome(ok, body) ==
    LET parsed == JSONParse(body)
        detail == Get(parsed.value, KEY_detail)
    IN  IF ~parsed.ok THEN NewError("SyntaxError", MSG_syntax)
        ELSE IF ok THEN NoError
        ELSE NewError("Error", IF Truthy(detail) THEN detail.value ELSE FAILED_TO_CLEAR)

\* ClearJson whose success empties the list and leaves the error notice as it was
ClearJsonKeepsError(c) ==
    /\ ~Settling
    /\ clears[c].pc = "json"
    /\ LET err == ClearOutcome(clears[c].ok, clears[c].body)
       IN  IF err = NoError
             THEN messages' = << >> /\ UNCHANGED error
             ELSE error' = ClearErrorNotice(err) /\ UNCHANGED messages
    /\ clears' = RemoveAt(clears, c)
    /\ UNCHANGED <<isLoading, input, now, turns>>

\* await response.json() of the clear response settles and the handler continues
ClearJson(c) ==
    /\ ~Settling
    /\ clears[c].pc = "json"
    /\ LET err == ClearOutcome(clears[c].ok, clears[c].body)
       IN  IF err = NoError
             THEN messages' = << >> /\ error' = NULL
             ELSE error' = ClearErrorNotice(err) /\ UNCHANGED messages
    /\ clears' = RemoveAt(clears, c)
    /\ UNCHANGED <<isLoading, input, now, turns>>

(***************************************************************************)
(* Specifications.                                                         *)
(***************************************************************************)
\* the view with its turns and clears; reads deliver whole segments
Next ==
    \/ \E v \in Inputs : onChange(v)
    \/ handleSubmit
    \/ \E v \in Inputs : onSendMessage(v)
    \/ \E i \in DOMAIN turns : FetchRejects(i)
    \/ \E i \in DOMAIN turns : FetchResponds(i, ViewBodies)
    \/ \E i \in DOMAIN turns : FetchNotOk(i)
    \/ \E i \in DOMAIN turns : ResponseJson(i, ViewErrorBodies)
    \/ \E i \in DOMAIN turns : Read(i, TRUE)
    \/ \E i \in DOMAIN turns : ReadDone(i)
    \/ \E i \in DOMAIN turns : ReadFails(i)
    \/ \E i \in DOMAIN turns : Settle(i)
    \/ DismissError
    \/ \E confirmed \in BOOLEAN : handleClearConversation(confirmed)
    \/ \E c \in DOMAIN clears : ClearFetchRejects(c)
    \/ \E c \in DOMAIN clears : ClearFetchResponds(c, ViewClearBodies)
    \/ \E c \in DOMAIN clears : ClearJson(c)

Spec == Init /\ [][Next]_vars

\* the next step of a turn in flight: its request settles, a read of the body settles
\* (the body is finite, so the reads end), or the handler continues after the await
TurnStep ==
    \E i \in DOMAIN turns :
        \/ FetchRejects(i)
        \/ FetchResponds(i, ViewBodies)
        \/ FetchNotOk(i)
        \/ ResponseJson(i, ViewErrorBodies)
        \/ ReadFails(i)
        \/ ReadDone(i)
        \/ Read(i, TRUE)
        \/ Settle(i)

\* the view with its turns, the Clear button left alone
TurnsNext ==
    \/ \E v \in Inputs : onChange(v)
    \/ handleSubmit
    \/ \E v \in Inputs : onSendMessage(v)
    \/ TurnStep
    \/ DismissError

\* the turns of the view when every pending promise of a turn settles
FairSpec == Init /\ [][TurnsNext]_vars /\ WF_vars(TurnStep)

\* one call of sendMessage on any body, cut into reads anywhere
DecoderTurn ==
    /\ turns = << >>
    /\ input' = EMPTY
    /\ handleSendMessage(<<" ", "h">>)
    /\ now' = now
    /\ UNCHANGED clears

DecoderNext ==
    \/ DecoderTurn
    \/ \E i \in DOMAIN turns : FetchRejects(i)
    \/ \E i \in DOMAIN turns : FetchResponds(i, DecoderBodies)
    \/ \E i \in DOMAIN turns : FetchNotOk(i)
    \/ \E i \in DOMAIN turns : ResponseJson(i, ErrorBodies)
    \/ \E i \in DOMAIN turns : Read(i, FALSE)
    \/ \E i \in DOMAIN turns : ReadDone(i)
    \/ \E i \in DOMAIN turns : ReadFails(i)
    \/ \E i \in DOMAIN turns : Settle(i)

DecoderSpec == Init /\ [][DecoderNext]_vars

\* one turn at most, and clears answered with any body
ClearNext ==
    \/ \E v \in Inputs : onChange(v)
    \/ turns = << >> /\ now' = now /\ handleSubmit
    \/ \E i \in DOMAIN turns : FetchRejects(i)
    \/ \E i \in DOMAIN turns : FetchResponds(i, ViewBodies)
    \/ \E i \in DOMAIN turns : FetchNotOk(i)
    \/ \E i \in DOMAIN turns : ResponseJson(i, ErrorBodies)
    \/ \E i \in DOMAIN turns : Read(i, TRUE)
    \/ \E i \in DOMAIN turns : ReadDone(i)
    \/ \E i \in DOMAIN turns : ReadFails(i)
    \/ \E i \in DOMAIN turns : Settle(i)
    \/ DismissError
    \/ \E confirmed \in BOOLEAN : handleClearConversation(confirmed)
    \/ \E c \in DOMAIN clears : ClearFetchRejects(c)
    \/ \E c \in DOMAIN clears : ClearFetchResponds(c, ErrorBodies)
    \/ \E c \in DOMAIN clears : ClearJson(c)

ClearSpec == Init /\ [][ClearNext]_vars
(***************************************************************************)
(* What a sendMessage call was given and what it did, read off its record. *)
(***************************************************************************)
Settled(t) == t.pc \in {"resolved", "rejected"}

\* the calls of sendMessage whose locals exist and whose response was 2xx
Decoding == {i \in DOMAIN turns : turns[i].status = "2xx" /\ turns[i].pc # "done"}

Completes(t) == SelectSeq(t.calls, LAMBDA c : c.fn = "onComplete")
Chunks(t) == SelectSeq(t.calls, LAMBDA c : c.fn = "onChunk")

\* what the caller of sendMessage observes
Outcome(t) ==
    [calls |-> t.calls, exit |-> t.exit, error |-> t.error,
     accumulatedResponse |-> t.accumulatedResponse]

\* the same call had all of text arrived in one read, ended the way t ended
SingleRead(t, text) ==
    LET one == ReadStep(NewTurn(0, << >>, << >>), text)
    IN  IF one.exit # "next" THEN one
        ELSE IF t.pc = "resolved" THEN ProcessDone(one)
        ELSE IF t.pc = "rejected" THEN ReadRejected(one)
        ELSE one

\* the separator-terminated segments of the text delivered so far
Segments(t) ==
    LET lines == Split(Decode(EMPTY, t.delivered).text)
    IN  SubSeq(lines, 1, Len(lines) - 1)

\* a segment that carries a well-formed event, and the event
IsEvent(seg) == StartsWith(seg, DATA_PREFIX) /\ JSONParse(Slice(seg, 6)).ok
EventOf(seg) == JSONParse(Slice(seg, 6)).value
HasField(seg, key) == IsEvent(seg) /\ key \in DOMAIN EventOf(seg)
Field(seg, key) == EventOf(seg)[key].value

\* the index of the first segment of segs that satisfies Is, Len(segs) + 1 if none does
FirstIndex(segs, Is(_)) ==
    LET at == {k \in 1..Len(segs) : Is(segs[k])}
    IN  IF at = {} THEN Len(segs) + 1 ELSE Least(at)

\* an error or done event, by the fields it carries
IsTerminalEvent(seg) == HasField(seg, KEY_error) \/ HasField(seg, KEY_done)

\* an error or done event whose error text is not empty, or whose done is true
IsStoppingEvent(seg) ==
    \/ HasField(seg, KEY_error) /\ Field(seg, KEY_error) # EMPTY
    \/ HasField(seg, KEY_done) /\ Field(seg, KEY_done) = LIT_true

\* the chunk values of the events among the first n segments, in order
ChunkValues(segs, n) ==
    LET with == SelectSeq(SubSeq(segs, 1, n), LAMBDA seg : HasField(seg, KEY_chunk))
    IN  [j \in 1..Len(with) |-> Field(with[j], KEY_chunk)]

\* the onChunk calls for these values, and the text they add up to
ChunkCalls(values) == [j \in 1..Len(values) |-> OnChunkCall(values[j])]

RECURSIVE Concat(_)
Concat(values) == IF values = << >> THEN EMPTY ELSE Head(values) \o Concat(Tail(values))

(***************************************************************************)
(* Claims about the decoder (DecoderSpec).                                 *)
(***************************************************************************)
\* C1: a sendMessage call never invokes onComplete twice, and once its promise has
\* settled on a 2xx response it has invoked it exactly once, on every exit path (done
\* event, error event, end of stream, failed read) and after any segments.
OnCompleteExactlyOnce ==
    \A i \in DOMAIN turns :
        /\ Len(Completes(turns[i])) <= 1
        /\ (i \in Decoding /\ Settled(turns[i])) => Len(Completes(turns[i])) = 1

\* C1's case: an error event after a dispatched chunk has rejected the call
OnCompleteExactlyOnceWitness ==
    \E i \in Decoding :
        /\ turns[i].pc = "rejected"
        /\ turns[i].error.name = "Error"
        /\ Len(Chunks(turns[i])) = 1
        /\ Len(Completes(turns[i])) = 1

\* C2: whatever reads the delivered bytes arrived in, the callback calls made so far, the
\* accumulated text and the way the call ended are those of the same bytes arriving in a
\* single read.
ReadPartitionIndependent ==
    \A i \in Decoding :
        Outcome(turns[i]) = Outcome(SingleRead(turns[i], turns[i].delivered))

\* C2's case: after one event was dispatched, a read has ended inside the next segment and
\* inside a two-byte character of it
ReadPartitionIndependentWitness ==
    \E i \in Decoding :
        /\ turns[i].pc = "read"
        /\ Len(Chunks(turns[i])) = 1
        /\ StartsWith(turns[i].buffer, DATA_PREFIX)
        /\ turns[i].pending # EMPTY

\* C3: the arguments passed to onChunk so far are the chunk values of the well-formed
\* data segments delivered before the first done or error event, in their order, each
\* once.
ChunksInStreamOrder ==
    \A i \in Decoding :
        LET segs == Segments(turns[i])
            k == FirstIndex(segs, IsTerminalEvent)
        IN  Chunks(turns[i]) = ChunkCalls(ChunkValues(segs, k - 1))

\* C4: once an event with an error field has been delivered before any done event, the
\* call has made the onChunk calls of the chunks before it, then onComplete with their
\* concatenation and nothing else, and has rejected with the error text.
ErrorEventIsTerminal ==
    \A i \in Decoding :
        LET segs == Segments(turns[i])
            k == FirstIndex(segs, IsTerminalEvent)
            before == ChunkValues(segs, k - 1)
        IN  (k <= Len(segs) /\ HasField(segs[k], KEY_error)) =>
                /\ turns[i].pc = "rejected"
                /\ turns[i].error = NewError("Error", Field(segs[k], KEY_error))
                /\ turns[i].calls = ChunkCalls(before) \o <<OnCompleteCall(Concat(before))>>

\* the calls and the state of a call whose first stopping event, the k-th segment, is a
\* done event: the chunks before it, one onComplete with text, resolved
StoppedByDone(t, segs, k, text) ==
    /\ t.pc = "resolved"
    /\ t.calls = ChunkCalls(ChunkValues(segs, k - 1)) \o <<OnCompleteCall(text)>>

\* C5 as stated: at a done event onComplete receives full_response whenever the field is
\* present, and the accumulated text only when it is absent; the call then stops.
DonePassesFullResponseIfPresent ==
    \A i \in Decoding :
        LET segs == Segments(turns[i])
            k == FirstIndex(segs, IsStoppingEvent)
        IN  (k <= Len(segs) /\ HasField(segs[k], KEY_done)) =>
                StoppedByDone(turns[i], segs, k,
                    IF HasField(segs[k], KEY_full_response)
                    THEN Field(segs[k], KEY_full_response)
                    ELSE Concat(ChunkValues(segs, k - 1)))

\* C5 amended: at a done event onComplete receives full_response if the field is present
\* and not empty, and the accumulated text otherwise (also for an empty full_response
\* that differs from it); the call then stops: no later event is dispatched and nothing
\* more is read.
DonePassesFullResponseIfNotEmpty ==
    \A i \in Decoding :
        LET segs == Segments(turns[i])
            k == FirstIndex(segs, IsStoppingEvent)
        IN  (k <= Len(segs) /\ HasField(segs[k], KEY_done)) =>
                StoppedByDone(turns[i], segs, k,
                    IF HasField(segs[k], KEY_full_response)
                       /\ Field(segs[k], KEY_full_response) # EMPTY
                    THEN Field(segs[k], KEY_full_response)
                    ELSE Concat(ChunkValues(segs, k - 1)))

\* C5's case: a done event whose full_response differs from the accumulated text has
\* completed the call, with bytes of the body still unread
DonePassesFullResponseWitness ==
    \E i \in Decoding :
        /\ turns[i].pc = "resolved"
        /\ turns[i].accumulatedResponse = <<"a">>
        /\ Completes(turns[i]) = <<OnCompleteCall(<<"a", "b">>)>>

\* the bytes delivered so far without the data segments whose JSON does not parse
WithoutMalformed(t) ==
    LET lines == Split(t.delivered)
        kept == SelectSeq(SubSeq(lines, 1, Len(lines) - 1),
                          LAMBDA seg : ~(StartsWith(seg, DATA_PREFIX) /\ ~IsEvent(seg)))
    IN  Concat([j \in 1..Len(kept) |-> kept[j] \o SEPARATOR]) \o lines[Len(lines)]

\* C6: the calls made so far, the accumulated text and the way the call ended are those
\* of the delivered bytes with every malformed data segment taken out: such a segment
\* causes no call and changes nothing, and what follows it is dispatched as without it.
MalformedSegmentsSkipped ==
    \A i \in Decoding :
        Outcome(turns[i]) = Outcome(SingleRead(turns[i], WithoutMalformed(turns[i])))

\* C6's case: a chunk that follows a malformed segment has been dispatched
MalformedSegmentsSkippedWitness ==
    \E i \in Decoding :
        /\ turns[i].delivered = Wire(J_malformed) \o Wire(J_chunk_a)
        /\ turns[i].calls = <<OnChunkCall(<<"a">>)>>

\* C7: a call rejected by a transport failure (fetch rejected, non-2xx response, failed
\* read) has invoked onComplete exactly once, with the text accumulated so far.
TransportFailureCompletes ==
    \A i \in DOMAIN turns :
        (turns[i].pc = "rejected"
            /\ (turns[i].status # "2xx" \/ turns[i].error.name = "TypeError")) =>
        Completes(turns[i]) = <<OnCompleteCall(turns[i].accumulatedResponse)>>

(***************************************************************************)
(* The Conversation View.                                                  *)
(***************************************************************************)
\* the messages of the list that are streaming
Streaming == {k \in DOMAIN messages : messages[k].isStreaming}

\* the turns whose handleSendMessage has not returned
InFlight == {i \in DOMAIN turns : turns[i].pc # "done"}

\* C8: in every reachable state of the view at most one message of the list has
\* isStreaming = true.
AtMostOneStreaming == Cardinality(Streaming) <= 1

\* C9: single-flight.  While a turn is in flight (its handleSendMessage has appended
\* and has not yet reset isLoading) isLoading is true and no other turn is in flight,
\* and no step appends a message or issues another POST /api/chat, whoever invokes
\* handleSendMessage.
SingleFlight ==
    [][InFlight # {} =>
          /\ isLoading
          /\ Cardinality(InFlight) = 1
          /\ Len(turns') = Len(turns)
          /\ Len(messages') <= Len(messages)]_vars

\* a second turn is in flight, begun after the first returned
SingleFlightWitness ==
    /\ Len(turns) = 2
    /\ turns[1].pc = "done"
    /\ turns[2].pc = "read"
    /\ isLoading
    /\ Len(messages) >= 3

\* C10: when sendMessage rejects, the handler ends the turn with the list being the
\* messages that were there before the turn, in their order, followed by the turn's
\* user message and no placeholder, the error notice being the error's message, and
\* isLoading false.
FailedTurnLeavesNoBubble ==
    [][\A i \in DOMAIN turns :
          (turns[i].pc = "rejected" /\ turns'[i].pc = "done") =>
              /\ messages' = turns[i].before \o <<turns[i].userMessage>>
              /\ error' = turns[i].error.message
              /\ isLoading' = FALSE]_vars

\* C11: no step of handleClearConversation empties the list while a turn is in flight,
\* whether the clear was requested before the turn started or during it.
ClearOnlyOutsideTurn ==
    [][(InFlight # {} /\ isLoading /\ Len(clears') < Len(clears)) =>
          ~(messages # << >> /\ messages' = << >>)]_vars

(***************************************************************************)
(* Claims about clearing (ClearSpec).                                      *)
(***************************************************************************)
\* what the clear request c ends with once its promise settles: the error
\* clearConversation throws, NoError if it returns
ClearEnds(c) ==
    IF clears[c].pc = "fetch" THEN NewError("TypeError", MSG_fetch)
    ELSE ClearOutcome(clears[c].ok, clears[c].body)

\* C12: when a confirmed clear's request is answered 2xx with its JSON body, so that
\* clearConversation returns, the handler leaves the list empty and the error notice
\* null, whatever they were.
ClearSuccessEmptiesList ==
    [][\A c \in DOMAIN clears :
          (/\ clears[c].pc = "json"
           /\ clears[c].ok
           /\ JSONParse(clears[c].body).ok
           /\ clears' = RemoveAt(clears, c)) =>
              messages' = << >> /\ error' = NULL]_vars

\* a clear has emptied the list a turn had filled
ClearSuccessEmptiesListWitness ==
    /\ Len(turns) = 1
    /\ turns[1].pc = "done"
    /\ clears = << >>
    /\ messages = << >>
    /\ error = NULL

\* C19: a clear that fails (its fetch rejects, its response is not 2xx, or the body
\* cannot be parsed) leaves the list unchanged and sets the error notice to the
\* failure's message; a step that sends the clear request changes neither, and a
\* declined confirmation is no step at all.
ClearFailureLeavesList ==
    [][/\ \A c \in DOMAIN clears :
            (clears' = RemoveAt(clears, c) /\ ClearEnds(c) # NoError) =>
                /\ messages' = messages
                /\ error' = ClearEnds(c).message
                /\ UNCHANGED <<isLoading, input, turns>>
       /\ Len(clears') > Len(clears) => UNCHANGED <<messages, error>>]_vars

\* a failed clear has left the list of a finished turn and set the notice
ClearFailureLeavesListWitness ==
    /\ Len(turns) = 1
    /\ turns[1].pc = "done"
    /\ clears = << >>
    /\ Len(messages) = 2
    /\ error = FAILED_TO_CLEAR

(***************************************************************************)
(* Claims about a non-2xx response (DecoderSpec).                          *)
(***************************************************************************)
\* the body of the turn's non-2xx response is a JSON object with a detail member
HasDetail(t) ==
    /\ t.status = "non-2xx"
    /\ t.pc = "rejected"
    /\ JSONParse(t.delivered).ok
    /\ KEY_detail \in DOMAIN JSONParse(t.delivered).value

\* the detail
Detail(t) == JSONParse(t.delivered).value[KEY_detail].value

\* sendMessage has rejected with message d without a chunk callback, and the step
\* that runs the handler's catch sets the error notice to d
SurfacesDetail(t, d) ==
    /\ t.error.message = d
    /\ Chunks(t) = << >>
    /\ error' = d

\* C13 as stated: on a non-2xx response with JSON body {detail: d}, sendMessage
\* rejects with message d without calling onChunk, and the error notice becomes d,
\* whatever d is.
NonOkSurfacesAnyDetail ==
    [][\A i \in DOMAIN turns :
          (HasDetail(turns[i]) /\ turns'[i].pc = "done") =>
              SurfacesDetail(turns[i], Detail(turns[i]))]_vars

\* C13: on a non-2xx response with JSON body {detail: d}, sendMessage rejects without
\* calling onChunk and the error notice is set to the rejection's message, which is d
\* if d is not the empty string and 'Failed to send message' if it is.
NonOkSurfacesDetail ==
    [][\A i \in DOMAIN turns :
          (HasDetail(turns[i]) /\ turns'[i].pc = "done") =>
              SurfacesDetail(turns[i], OrElse(Detail(turns[i]), FAILED_TO_SEND))]_vars

\* the handler has returned and the notice is the detail of the non-2xx response
NonOkSurfacesDetailWitness ==
    /\ Len(turns) = 1
    /\ turns[1].pc = "done"
    /\ error = Detail([delivered |-> J_detail])
    /\ Len(messages) = 1

(***************************************************************************)
(* Claims about the list over successive turns (Spec).                     *)
(***************************************************************************)
\* C14: in every reachable state the messages of the list have pairwise distinct ids,
\* the clock being non-decreasing.
IdsPairwiseDistinct ==
    \A j, k \in DOMAIN messages : j # k => messages[j].id # messages[k].id

\* C15: when sendMessage resolves, the handler ends the turn with the list being the
\* messages that were there before the turn, unchanged, followed by the turn's user
\* message (the trimmed text) and the assistant message, whose content is the value
\* passed to onComplete and whose isStreaming is false.
SuccessfulTurnAppendsTwo ==
    [][\A i \in DOMAIN turns :
          (turns[i].pc = "resolved" /\ turns'[i].pc = "done") =>
              /\ Len(Completes(turns[i])) = 1
              /\ messages' = turns[i].before \o
                     <<turns[i].userMessage,
                       Message(turns[i].assistantMessageId, "assistant",
                               Completes(turns[i])[1].arg, FALSE)>>]_vars

\* the turns that are streaming: sendMessage has neither settled nor completed
StreamingTurns == {i \in InFlight : ~Settled(turns[i]) /\ ~turns[i].completed}

\* the fragments the call has passed to onChunk, in order
Fragments(t) == [j \in 1..Len(Chunks(t)) |-> Chunks(t)[j].arg]

\* C16: while a turn is streaming and the list has not been cleared under it, the
\* last message of the list is the turn's placeholder, its content is the
\* concatenation in order of the fragments passed to onChunk so far (empty before
\* the first) and is the decoder's accumulated text, and its isStreaming is true.
PlaceholderShowsFragments ==
    \A i \in StreamingTurns :
        messages # << >> =>
            LET m == messages[Len(messages)]
            IN  /\ m.id = turns[i].assistantMessageId
                /\ m.role = "assistant"
                /\ m.content = Concat(Fragments(turns[i]))
                /\ m.content = turns[i].accumulatedResponse
                /\ m.isStreaming

\* the second turn is streaming and has received two fragments
PlaceholderShowsFragmentsWitness ==
    /\ Len(turns) = 2
    /\ 2 \in StreamingTurns
    /\ Len(Chunks(turns[2])) = 2
    /\ Len(messages) = 4
    /\ messages[4].content = Concat(Fragments(turns[2]))

\* C17: whenever the view is idle (isLoading false) no message of the list has
\* isStreaming true, whichever way the turns ended.
IdleMeansNoStreaming == ~isLoading => Streaming = {}

\* the view is idle after two turns, one that failed and one that succeeded
IdleMeansNoStreamingWitness ==
    /\ ~isLoading
    /\ Len(turns) = 2
    /\ InFlight = {}
    /\ Len(messages) = 3
    /\ \E k \in DOMAIN messages : messages[k].role = "assistant"

(***************************************************************************)
(* Liveness (FairSpec).                                                    *)
(***************************************************************************)
\* C18: once handleSendMessage has set isLoading, isLoading eventually becomes false
\* again, whichever way the request and the reads of the body settle.
TurnReturnsToIdle == isLoading ~> ~isLoading

\* every turn the bound allows has been started and has returned the view to idle
TurnReturnsToIdleWitness ==
    /\ ~isLoading
    /\ Len(turns) = MaxTurns
    /\ InFlight = {}

(***************************************************************************)
(* The order of the callbacks (DecoderSpec).                               *)
(***************************************************************************)
\* C20: within one sendMessage call no onChunk call follows an onComplete call,
\* whatever events follow in the current read or in the rest of the stream.
OnCompleteIsLast ==
    \A i \in DOMAIN turns :
        \A j, k \in DOMAIN turns[i].calls :
            (turns[i].calls[j].fn = "onComplete" /\ j < k) =>
                turns[i].calls[k].fn # "onChunk"

\* the call completed on its first event, which a chunk event followed in the stream
OnCompleteIsLastWitness ==
    \E i \in Decoding :
        LET segs == Segments(turns[i])
        IN  /\ Settled(turns[i])
            /\ Len(segs) = 2
            /\ IsStoppingEvent(segs[1])
            /\ HasField(segs[2], KEY_chunk)
            /\ Len(turns[i].calls) = 1
            /\ turns[i].calls[1].fn = "onComplete"

(***************************************************************************)
(* The argument of onComplete (DecoderSpec).                               *)
(***************************************************************************)
\* the call was stopped by a done event that carries a full_response that is not empty
StoppedByFullResponse(t) ==
    LET segs == Segments(t)
        k == FirstIndex(segs, IsStoppingEvent)
    IN  /\ k <= Len(segs)
        /\ HasField(segs[k], KEY_done)
        /\ HasField(segs[k], KEY_full_response)
        /\ Field(segs[k], KEY_full_response) # EMPTY

\* the fragments passed to onChunk before the j-th callback of the call
FragmentsBefore(t, j) == Fragments([calls |-> SubSeq(t.calls, 1, j - 1)])

\* C21: on every path other than a done event with a non-empty full_response (end of
\* stream, error event, failed read, done without full_response or with an empty one)
\* the argument of onComplete is the concatenation in order of the fragments passed
\* to onChunk before it in that call, the empty string if there were none.
OnCompleteGetsAccumulated ==
    \A i \in DOMAIN turns :
        \A j \in DOMAIN turns[i].calls :
            (turns[i].calls[j].fn = "onComplete" /\ ~StoppedByFullResponse(turns[i])) =>
                turns[i].calls[j].arg = Concat(FragmentsBefore(turns[i], j))

\* an error event after one chunk has completed the call with that chunk's text
OnCompleteGetsAccumulatedWitness ==
    \E i \in Decoding :
        /\ turns[i].pc = "rejected"
        /\ turns[i].error.name = "Error"
        /\ Len(turns[i].calls) = 2
        /\ turns[i].calls[1].fn = "onChunk"
        /\ turns[i].calls[2] = OnCompleteCall(turns[i].calls[1].arg)
        /\ turns[i].calls[2].arg # EMPTY

(***************************************************************************)
(* The text left in the buffer at the end of the stream (DecoderSpec).     *)
(***************************************************************************)
\* the call resolved because a read reported done, no event having stopped it
EndedByEndOfStream(t) ==
    /\ t.pc = "resolved"
    /\ FirstIndex(Segments(t), IsStoppingEvent) > Len(Segments(t))

\* C22: when the stream ends, the text left in the buffer (what follows the last
\* separator, be it a whole chunk, done or error event) is not parsed: the callbacks
\* are the chunks of the terminated segments and one onComplete with their
\* concatenation, no error is raised and the buffer still holds that text.
BufferDiscardedAtEnd ==
    \A i \in Decoding :
        EndedByEndOfStream(turns[i]) =>
            LET segs == Segments(turns[i])
                values == ChunkValues(segs, Len(segs))
                lines == Split(Decode(EMPTY, turns[i].delivered).text)
            IN  /\ turns[i].calls = ChunkCalls(values) \o <<OnCompleteCall(Concat(values))>>
                /\ turns[i].error = NoError
                /\ turns[i].buffer = lines[Len(lines)]

\* the stream ended after one terminated chunk with a whole done event carrying a
\* full_response left in the buffer; onComplete received the chunk's text
BufferDiscardedAtEndWitness ==
    \E i \in Decoding :
        /\ EndedByEndOfStream(turns[i])
        /\ HasField(turns[i].buffer, KEY_done)
        /\ HasField(turns[i].buffer, KEY_full_response)
        /\ Len(Chunks(turns[i])) = 1
        /\ Completes(turns[i]) = <<OnCompleteCall(Chunks(turns[i])[1].arg)>>
        /\ Field(turns[i].buffer, KEY_full_response) # Chunks(turns[i])[1].arg
====
